---- MODULE Spec2Model ----
(***************************************************************************)
(* Model of InfiniteCache (src/src/ts/rowModels/infinite/infiniteCache.ts) *)
(* the block-paginated row cache of the infinite row model: getRow,        *)
(* createBlock with LRU eviction, insertItemsAtIndex with its cross-block  *)
(* shift, refreshCache, purgeCache, and the asynchronous completion of the *)
(* blocks' loads.                                                          *)
(*                                                                         *)
(* InfiniteBlock, RowNodeCache and Utils are not part of the sources at    *)
(* hand; the operators that stand for them are written from spec.md and    *)
(* are marked "spec-modelled" where they are defined.                      *)
(*                                                                         *)
(* A RowNode object is a positive integer (its object identity); a blank   *)
(* slot is Blank, the absent result of getRow is Null.  Object identities  *)
(* are allocated as the smallest integer that is not an identity of the    *)
(* cache at the time of the call nor allocated earlier in the same call;   *)
(* identities that no slot references any more are dropped at the end of   *)
(* each operation and the others renamed (Commit).  The cache never reads  *)
(* the data item of a row node: the model keeps it for the row nodes the   *)
(* last operation made (call.made) and not beyond.                         *)
(***************************************************************************)
EXTENDS Integers, Sequences, FiniteSets, TLC

\* ------------------------------------------------------------------ bounds
\* getRow and insertItemsAtIndex are called with the row indexes 0 .. MaxRowIndex
MaxRowIndex == 3
\* insertItemsAtIndex is called with 1 .. MaxItems items
MaxItems == 2
\* the datasource serves the rows 0 .. DatasetLength - 1
DatasetLength == 3
\* cap of virtualRowCount
MaxRowCount == 5
\* cap of the number of evicted blocks whose load is still in flight
MaxEvictedLoading == 1
\* the getRow calls since construction that getRowLog remembers
MaxLog == 5

\* maxBlocksInCache when the cache is constructed without one
Unset == -1
\* the parameters a cache is constructed with
CacheParams == {[pageSize |-> 2, maxBlocksInCache |-> m] : m \in {Unset, 0, 1}}
\* the parameters of the cache of the LRU scenario: four one-row blocks, two resident
CacheParamsLRU == {[pageSize |-> 1, maxBlocksInCache |-> 2]}
\* the data items handed to insertItemsAtIndex, in this order
ItemPool == <<"x", "y", "z">>
FetchedItem == "d"

Blank == 0
Null == -1

VARIABLES
    cacheParams,          \* [pageSize, maxBlocksInCache], fixed at construction
    blocks,               \* block number -> block, the resident blocks
    rowNodes,             \* RowNode identity -> [rowIndex]
    lastAccessedSequence, \* the sequence that stamps lastAccessed
    evicted,              \* block number -> number of evicted blocks whose load is in flight
    virtualRowCount,
    maxRowFound,
    active,
    events,               \* the notifications emitted by the last operation, in order
    operation,            \* the last operation: its name and arguments
    call,                 \* the last operation: its result, its row nodes and the cache before it
    getRowLog             \* the block numbers of the getRow calls since construction

vars == <<cacheParams, blocks, rowNodes, lastAccessedSequence, evicted,
          virtualRowCount, maxRowFound, active, events, operation, call, getRowLog>>

pageSize == cacheParams.pageSize
maxBlocksInCache == cacheParams.maxBlocksInCache

RowIndexes == 0 .. MaxRowIndex
BlockNumbers == 0 .. (MaxRowIndex \div pageSize)

\* ------------------------------------------------------------- block layer
\* (InfiniteBlock / RowNodeBlock; spec-modelled from spec.md sections 3 and 4.2)

getStartRow(blockNumber) == blockNumber * pageSize
getEndRow(blockNumber) == getStartRow(blockNumber) + pageSize

\* a block as constructed: NotLoaded, clean, every slot blank, never accessed
NewInfiniteBlock ==
    [state |-> "NotLoaded", dirty |-> FALSE,
     rows |-> [i \in 1 .. pageSize |-> Blank], lastAccessed |-> 0]

\* slot of absolute row index rowIndex in the rows of block blockNumber
Slot(blockNumber, rowIndex) == rowIndex - getStartRow(blockNumber) + 1

MustLoad(b) == b.state # "Loading" /\ (b.state = "NotLoaded" \/ b.dirty)

\* block.getRow(rowIndex): stamps lastAccessed, starts the load of a block that
\* never loaded or is dirty, and returns the slot's content
blockGetRow(c, blockNumber, rowIndex) ==
    LET b == c.blocks[blockNumber]
        stamp == c.lastAccessedSequence + 1
        b2 == [b EXCEPT !.lastAccessed = stamp,
                        !.state = IF MustLoad(b) THEN "Loading" ELSE @]
    IN [cache |-> [c EXCEPT !.blocks[blockNumber] = b2,
                            !.lastAccessedSequence = stamp],
        node |-> b.rows[Slot(blockNumber, rowIndex)]]

\* block.setRowNode(rowIndex, rowNode): the slot takes the node, the node takes
\* the slot's row index
setRowNode(c, blockNumber, rowIndex, rowNode) ==
    [c EXCEPT !.blocks[blockNumber].rows[Slot(blockNumber, rowIndex)] = rowNode,
              !.rowNodes[rowNode].rowIndex = rowIndex]

setBlankRowNode(c, blockNumber, rowIndex) ==
    [c EXCEPT !.blocks[blockNumber].rows[Slot(blockNumber, rowIndex)] = Blank]

setDirty(c, blockNumber) == [c EXCEPT !.blocks[blockNumber].dirty = TRUE]

\* new RowNode(): an identity no slot of the cache held at the start of the
\* operation and that the operation has not allocated yet
NewRowNode(c) == CHOOSE n \in 1 .. (Cardinality(c.used) + 1) : n \notin c.used

\* block.setNewData(rowIndex, dataItem): a fresh row node carrying dataItem
setNewData(c, blockNumber, rowIndex, dataItem) ==
    LET n == NewRowNode(c)
    IN [cache |-> [c EXCEPT
                     !.blocks[blockNumber].rows[Slot(blockNumber, rowIndex)] = n,
                     !.rowNodes = (n :> [rowIndex |-> rowIndex]) @@ @,
                     !.made = (n :> dataItem) @@ @,
                     !.used = @ \cup {n}],
        node |-> n]

\* --------------------------------------------------- RowNodeCache (base class)
\* (spec-modelled from spec.md sections 3 and 4.1)

exists(value) == value # Unset

getBlockCount(c) == Cardinality(DOMAIN c.blocks)

setBlock(c, blockNumber, block) ==
    [c EXCEPT !.blocks = (blockNumber :> block) @@ @]

\* removeBlock(id); a block removed while its load is in flight lives on, outside
\* the map, until its load completes
removeBlock(c, blockNumber) ==
    [c EXCEPT !.blocks = [k \in (DOMAIN @) \ {blockNumber} |-> @[k]],
              !.evicted[blockNumber] =
                  IF c.blocks[blockNumber].state = "Loading" THEN @ + 1 ELSE @]

\* checkBlockToLoad(): starts the load of every resident block that needs one
checkBlockToLoad(c) ==
    [c EXCEPT !.blocks = [k \in DOMAIN @ |->
                 IF MustLoad(@[k]) THEN [@[k] EXCEPT !.state = "Loading"] ELSE @[k]]]

SetMin(S) == CHOOSE x \in S : \A y \in S : x <= y
SetMax(S) == CHOOSE x \in S : \A y \in S : x >= y

Event(type, nodes, block) == [type |-> type, nodes |-> nodes, block |-> block]

\* ------------------------------------------------------------ InfiniteCache

\* removeBlockFromCache taking the load-completion listener off the block: the
\* completion of its load no longer reaches the cache
removeBlockFromCache_removesListener(c, pageToRemove) ==
    IF pageToRemove = Null THEN c
    ELSE [c EXCEPT !.blocks = [k \in (DOMAIN @) \ {pageToRemove} |-> @[k]]]

removeBlockFromCache(c, pageToRemove) ==
    IF pageToRemove = Null THEN c ELSE removeBlock(c, pageToRemove)

\* the loop of findLeastRecentlyUsedPage over the block ids still to visit, in
\* ascending order
RECURSIVE findLeastRecentlyUsedPageLoop(_, _, _, _)
findLeastRecentlyUsedPageLoop(c, ids, pageToExclude, lruPage) ==
    IF ids = {} THEN lruPage
    ELSE LET id == SetMin(ids)
             next == IF id = pageToExclude THEN lruPage
                     ELSE IF lruPage = Null
                             \/ c.blocks[id].lastAccessed < c.blocks[lruPage].lastAccessed
                          THEN id
                          ELSE lruPage
         IN findLeastRecentlyUsedPageLoop(c, ids \ {id}, pageToExclude, next)

\* findLeastRecentlyUsedPage returning the first block of the scan that is not
\* the excluded one, whatever its lastAccessed
findLeastRecentlyUsedPage_firstScanned(c, pageToExclude) ==
    LET others == (DOMAIN c.blocks) \ {pageToExclude}
    IN IF others = {} THEN Null ELSE SetMin(others)

findLeastRecentlyUsedPage_mostRecent(c, pageToExclude) ==
    LET others == (DOMAIN c.blocks) \ {pageToExclude}
    IN IF others = {} THEN Null
       ELSE CHOOSE id \in others : \A o \in others :
                c.blocks[o].lastAccessed <= c.blocks[id].lastAccessed

findLeastRecentlyUsedPage(c, pageToExclude) ==
    findLeastRecentlyUsedPageLoop(c, DOMAIN c.blocks, pageToExclude, Null)

createBlock_noPurge(c, blockNumber) ==
    checkBlockToLoad(setBlock(c, blockNumber, NewInfiniteBlock))

createBlock(c, blockNumber) ==
    LET c1 == setBlock(c, blockNumber, NewInfiniteBlock)
        needToPurge == exists(maxBlocksInCache)
                       /\ getBlockCount(c1) > maxBlocksInCache
        c2 == IF needToPurge
              THEN removeBlockFromCache(c1, findLeastRecentlyUsedPage(c1, blockNumber))
              ELSE c1
    IN checkBlockToLoad(c2)

\* getRow whose eviction does not exclude the block just created: never
\* accessed, its lastAccessed is the smallest and it is the block evicted
getRow_evictsCreated(c, rowIndex, dontCreatePage) ==
    LET blockId == rowIndex \div pageSize
        c1 == setBlock(c, blockId, NewInfiniteBlock)
    IN IF blockId \notin DOMAIN c.blocks
       THEN IF dontCreatePage
            THEN [cache |-> c, node |-> Null]
            ELSE IF exists(maxBlocksInCache) /\ getBlockCount(c1) > maxBlocksInCache
                 THEN [cache |-> checkBlockToLoad(c), node |-> Blank]
                 ELSE blockGetRow(checkBlockToLoad(c1), blockId, rowIndex)
       ELSE blockGetRow(c, blockId, rowIndex)

\* getRow ignoring dontCreatePage: a missing block is always created
getRow_alwaysCreates(c, rowIndex, dontCreatePage) ==
    LET blockId == rowIndex \div pageSize
    IN IF blockId \notin DOMAIN c.blocks
       THEN blockGetRow(createBlock(c, blockId), blockId, rowIndex)
       ELSE blockGetRow(c, blockId, rowIndex)

getRow(c, rowIndex, dontCreatePage) ==
    LET blockId == rowIndex \div pageSize
    IN IF blockId \notin DOMAIN c.blocks
       THEN IF dontCreatePage
            THEN [cache |-> c, node |-> Null]
            ELSE blockGetRow(createBlock(c, blockId), blockId, rowIndex)
       ELSE blockGetRow(c, blockId, rowIndex)

\* a row node is there when getRow returned neither null nor a blank slot
IsNode(node) == node > 0

\* the loop of moveItemsDown from currentRowIndex down to the block's first row
RECURSIVE moveItemsDownLoop(_, _, _, _, _)

\* the loop with the source index off by one
moveItemsDownLoop_offByOne(c, page, moveFromIndex, moveCount, currentRowIndex) ==
    IF currentRowIndex < getStartRow(page) THEN c
    ELSE IF currentRowIndex < moveFromIndex + moveCount
         THEN moveItemsDownLoop(c, page, moveFromIndex, moveCount, currentRowIndex - 1)
         ELSE LET got == getRow(c, currentRowIndex - moveCount - 1, TRUE)
                  c2 == IF IsNode(got.node)
                        THEN setRowNode(got.cache, page, currentRowIndex, got.node)
                        ELSE setDirty(setBlankRowNode(got.cache, page, currentRowIndex), page)
              IN moveItemsDownLoop(c2, page, moveFromIndex, moveCount, currentRowIndex - 1)

\* the loop leaving the destination slot as it is on a missing source
moveItemsDownLoop_keepsOnMissing(c, page, moveFromIndex, moveCount, currentRowIndex) ==
    IF currentRowIndex < getStartRow(page) THEN c
    ELSE IF currentRowIndex < moveFromIndex + moveCount
         THEN moveItemsDownLoop(c, page, moveFromIndex, moveCount, currentRowIndex - 1)
         ELSE LET got == getRow(c, currentRowIndex - moveCount, TRUE)
                  c2 == IF IsNode(got.node)
                        THEN setRowNode(got.cache, page, currentRowIndex, got.node)
                        ELSE setDirty(got.cache, page)
              IN moveItemsDownLoop(c2, page, moveFromIndex, moveCount, currentRowIndex - 1)

\* the loop reading a source for the rows the new items take too
moveItemsDownLoop_readsBeforeIndex(c, page, moveFromIndex, moveCount, currentRowIndex) ==
    IF currentRowIndex < getStartRow(page) THEN c
    ELSE IF currentRowIndex < moveFromIndex
         THEN moveItemsDownLoop(c, page, moveFromIndex, moveCount, currentRowIndex - 1)
         ELSE LET got == getRow(c, currentRowIndex - moveCount, TRUE)
                  c2 == IF IsNode(got.node)
                        THEN setRowNode(got.cache, page, currentRowIndex, got.node)
                        ELSE setDirty(setBlankRowNode(got.cache, page, currentRowIndex), page)
              IN moveItemsDownLoop(c2, page, moveFromIndex, moveCount, currentRowIndex - 1)

\* the loop without setDirty on a missing source
moveItemsDownLoop_notDirty(c, page, moveFromIndex, moveCount, currentRowIndex) ==
    IF currentRowIndex < getStartRow(page) THEN c
    ELSE IF currentRowIndex < moveFromIndex + moveCount
         THEN moveItemsDownLoop(c, page, moveFromIndex, moveCount, currentRowIndex - 1)
         ELSE LET got == getRow(c, currentRowIndex - moveCount, TRUE)
                  c2 == IF IsNode(got.node)
                        THEN setRowNode(got.cache, page, currentRowIndex, got.node)
                        ELSE setBlankRowNode(got.cache, page, currentRowIndex)
              IN moveItemsDownLoop(c2, page, moveFromIndex, moveCount, currentRowIndex - 1)

moveItemsDownLoop(c, page, moveFromIndex, moveCount, currentRowIndex) ==
    IF currentRowIndex < getStartRow(page) THEN c
    ELSE IF currentRowIndex < moveFromIndex + moveCount
         THEN moveItemsDownLoop(c, page, moveFromIndex, moveCount, currentRowIndex - 1)
         ELSE LET got == getRow(c, currentRowIndex - moveCount, TRUE)
                  c2 == IF IsNode(got.node)
                        THEN setRowNode(got.cache, page, currentRowIndex, got.node)
                        ELSE setDirty(setBlankRowNode(got.cache, page, currentRowIndex), page)
              IN moveItemsDownLoop(c2, page, moveFromIndex, moveCount, currentRowIndex - 1)

\* moveItemsDown walking the block's rows from its first row up
RECURSIVE moveItemsDownAscendingLoop(_, _, _, _, _)
moveItemsDownAscendingLoop(c, page, moveFromIndex, moveCount, currentRowIndex) ==
    IF currentRowIndex >= getEndRow(page) THEN c
    ELSE IF currentRowIndex < moveFromIndex + moveCount
         THEN moveItemsDownAscendingLoop(c, page, moveFromIndex, moveCount, currentRowIndex + 1)
         ELSE LET got == getRow(c, currentRowIndex - moveCount, TRUE)
                  c2 == IF IsNode(got.node)
                        THEN setRowNode(got.cache, page, currentRowIndex, got.node)
                        ELSE setDirty(setBlankRowNode(got.cache, page, currentRowIndex), page)
              IN moveItemsDownAscendingLoop(c2, page, moveFromIndex, moveCount,
                                            currentRowIndex + 1)

moveItemsDown_ascending(c, page, moveFromIndex, moveCount) ==
    moveItemsDownAscendingLoop(c, page, moveFromIndex, moveCount, getStartRow(page))

moveItemsDown(c, page, moveFromIndex, moveCount) ==
    moveItemsDownLoop(c, page, moveFromIndex, moveCount, getEndRow(page) - 1)

\* the loop of insertItems from items[index] on (index counts from 0)
RECURSIVE insertItemsLoop(_, _, _, _, _, _)
insertItemsLoop(c, block, indexToInsert, items, index, newRowNodes) ==
    IF index >= Len(items) THEN [cache |-> c, newRowNodes |-> newRowNodes]
    ELSE LET rowIndex == indexToInsert + index
             currentRowInThisPage == rowIndex >= getStartRow(block)
                                     /\ rowIndex < getEndRow(block)
         IN IF currentRowInThisPage
            THEN LET made == setNewData(c, block, rowIndex, items[index + 1])
                 IN insertItemsLoop(made.cache, block, indexToInsert, items, index + 1,
                                    Append(newRowNodes, made.node))
            ELSE insertItemsLoop(c, block, indexToInsert, items, index + 1, newRowNodes)

insertItems(c, block, indexToInsert, items) ==
    insertItemsLoop(c, block, indexToInsert, items, 0, <<>>)

\* dispatchModelUpdated without the isActive() test
dispatchModelUpdated_ungated(c) ==
    [c EXCEPT !.events = Append(@, Event("modelUpdated", <<>>, Null))]

dispatchModelUpdated(c) ==
    IF active THEN [c EXCEPT !.events = Append(@, Event("modelUpdated", <<>>, Null))] ELSE c

\* the body of insertItemsAtIndex's forEachBlockInReverseOrder over the block
\* ids still to visit, in descending order
RECURSIVE insertItemsAtIndexLoop(_, _, _, _, _)

\* insertItemsAtIndex with forEachBlockInOrder: the lowest block first
insertItemsAtIndexLoop_ascendingBlocks(c, ids, indexToInsert, items, newNodes) ==
    IF ids = {} THEN [cache |-> c, newNodes |-> newNodes]
    ELSE LET block == SetMin(ids)
         IN IF getEndRow(block) <= indexToInsert
            THEN insertItemsAtIndexLoop(c, ids \ {block}, indexToInsert, items, newNodes)
            ELSE LET moved == moveItemsDown(c, block, indexToInsert, Len(items))
                     ins == insertItems(moved, block, indexToInsert, items)
                 IN insertItemsAtIndexLoop(ins.cache, ids \ {block}, indexToInsert, items,
                                           newNodes \o ins.newRowNodes)

\* insertItemsAtIndex skipping also the block the insertion index is in
insertItemsAtIndexLoop_skipsInsertionBlock(c, ids, indexToInsert, items, newNodes) ==
    IF ids = {} THEN [cache |-> c, newNodes |-> newNodes]
    ELSE LET block == SetMax(ids)
         IN IF getEndRow(block) <= indexToInsert + Len(items)
            THEN insertItemsAtIndexLoop(c, ids \ {block}, indexToInsert, items, newNodes)
            ELSE LET moved == moveItemsDown(c, block, indexToInsert, Len(items))
                     ins == insertItems(moved, block, indexToInsert, items)
                 IN insertItemsAtIndexLoop(ins.cache, ids \ {block}, indexToInsert, items,
                                           newNodes \o ins.newRowNodes)

insertItemsAtIndexLoop(c, ids, indexToInsert, items, newNodes) ==
    IF ids = {} THEN [cache |-> c, newNodes |-> newNodes]
    ELSE LET block == SetMax(ids)
         IN IF getEndRow(block) <= indexToInsert
            THEN insertItemsAtIndexLoop(c, ids \ {block}, indexToInsert, items, newNodes)
            ELSE LET moved == moveItemsDown(c, block, indexToInsert, Len(items))
                     ins == insertItems(moved, block, indexToInsert, items)
                 IN insertItemsAtIndexLoop(ins.cache, ids \ {block}, indexToInsert, items,
                                           newNodes \o ins.newRowNodes)

\* insertItemsAtIndex growing the row count while the end is unknown
insertItemsAtIndex_growsWhenEndUnknown(c, indexToInsert, items) ==
    LET done == insertItemsAtIndexLoop(c, DOMAIN c.blocks, indexToInsert, items, <<>>)
        c1 == done.cache
        c2 == IF ~c1.maxRowFound
              THEN [c1 EXCEPT !.virtualRowCount = @ + Len(items)]
              ELSE c1
        c3 == dispatchModelUpdated(c2)
    IN [c3 EXCEPT !.events = Append(@, Event("itemsAdded", done.newNodes, Null))]

\* insertItemsAtIndex dispatching items-added before model-updated
insertItemsAtIndex_itemsAddedFirst(c, indexToInsert, items) ==
    LET done == insertItemsAtIndexLoop(c, DOMAIN c.blocks, indexToInsert, items, <<>>)
        c1 == done.cache
        c2 == IF c1.maxRowFound
              THEN [c1 EXCEPT !.virtualRowCount = @ + Len(items)]
              ELSE c1
    IN dispatchModelUpdated(
           [c2 EXCEPT !.events = Append(@, Event("itemsAdded", done.newNodes, Null))])

insertItemsAtIndex(c, indexToInsert, items) ==
    LET done == insertItemsAtIndexLoop(c, DOMAIN c.blocks, indexToInsert, items, <<>>)
        c1 == done.cache
        c2 == IF c1.maxRowFound
              THEN [c1 EXCEPT !.virtualRowCount = @ + Len(items)]
              ELSE c1
        c3 == dispatchModelUpdated(c2)
    IN [c3 EXCEPT !.events = Append(@, Event("itemsAdded", done.newNodes, Null))]

\* refreshCache without the load-scheduling check
refreshCache_noCheck(c) ==
    [c EXCEPT !.blocks = [k \in DOMAIN @ |-> [@[k] EXCEPT !.dirty = TRUE]]]

refreshCache(c) ==
    checkBlockToLoad([c EXCEPT !.blocks = [k \in DOMAIN @ |-> [@[k] EXCEPT !.dirty = TRUE]]])

\* purgeCache leaving the blocks whose load is in flight
purgeCacheLoop_keepsLoading(c, ids) ==
    LET idle == {k \in ids : c.blocks[k].state # "Loading"}
    IN [c EXCEPT !.blocks = [k \in (DOMAIN @) \ idle |-> @[k]]]

RECURSIVE purgeCacheLoop(_, _)
purgeCacheLoop(c, ids) ==
    IF ids = {} THEN c
    ELSE purgeCacheLoop(removeBlockFromCache(c, SetMin(ids)), ids \ {SetMin(ids)})

purgeCache(c) == dispatchModelUpdated(purgeCacheLoop(c, DOMAIN c.blocks))

\* ----------------------------------------------------- load completion
\* (InfiniteBlock's fetch callbacks and RowNodeCache.onPageLoaded; spec-modelled
\* from spec.md sections 4.2 and 6)

\* the number of items the datasource returns for a block
FetchedCount(blockNumber) ==
    IF DatasetLength <= getStartRow(blockNumber) THEN 0
    ELSE IF DatasetLength >= getEndRow(blockNumber) THEN pageSize
    ELSE DatasetLength - getStartRow(blockNumber)

\* the block takes the fetched items: a fresh row node for each of them, a
\* blank for each slot beyond them
RECURSIVE populateLoop(_, _, _, _)
populateLoop(c, blockNumber, count, i) ==
    IF i >= pageSize THEN c
    ELSE IF i < count
         THEN populateLoop(setNewData(c, blockNumber, getStartRow(blockNumber) + i,
                                      FetchedItem).cache,
                           blockNumber, count, i + 1)
         ELSE populateLoop(setBlankRowNode(c, blockNumber, getStartRow(blockNumber) + i),
                           blockNumber, count, i + 1)

\* the row count learnt from a load: fewer items than a page means the dataset
\* ends inside this block
checkVirtualRowCount(c, blockNumber, count) ==
    IF count < pageSize
    THEN [c EXCEPT !.virtualRowCount = getStartRow(blockNumber) + count,
                   !.maxRowFound = TRUE]
    ELSE IF ~c.maxRowFound /\ c.virtualRowCount < getEndRow(blockNumber)
         THEN [c EXCEPT !.virtualRowCount = getEndRow(blockNumber)]
         ELSE c

\* the completion listener that createBlock registers: the completion is
\* accounted for, the cache is left as it is
onPageLoaded(c, blockNumber) ==
    [c EXCEPT !.events = Append(@, Event("loadComplete", <<>>, blockNumber))]

\* the fetch of a resident block succeeds
pageLoaded(c, blockNumber) ==
    LET count == FetchedCount(blockNumber)
        c1 == populateLoop(c, blockNumber, count, 0)
        c2 == [c1 EXCEPT !.blocks[blockNumber].dirty = FALSE,
                         !.blocks[blockNumber].state = "Loaded"]
    IN dispatchModelUpdated(checkVirtualRowCount(onPageLoaded(c2, blockNumber),
                                                 blockNumber, count))

\* the fetch of a resident block fails: no data, the listener is told
pageLoadFailed(c, blockNumber) ==
    onPageLoaded([c EXCEPT !.blocks[blockNumber].state = "Loaded"], blockNumber)

\* the fetch of an evicted block writing its result into the resident block
\* of the same number
evictedPageLoaded_appliesResult(c, blockNumber) ==
    LET c1 == [c EXCEPT !.evicted[blockNumber] = @ - 1]
    IN IF blockNumber \in DOMAIN c.blocks
       THEN pageLoaded(c1, blockNumber)
       ELSE onPageLoaded(c1, blockNumber)

\* the fetch of an evicted block completes: only the listener is told
evictedPageLoaded(c, blockNumber) ==
    onPageLoaded([c EXCEPT !.evicted[blockNumber] = @ - 1], blockNumber)

\* ------------------------------------------------------------- the machine

NodesIn(bs) == {bs[k].rows[i] : k \in DOMAIN bs, i \in 1 .. pageSize} \ {Blank}

\* the row indexes of the slots of the blocks bs
RowsOf(bs) == {r \in 0 .. (MaxRowIndex + pageSize) : r \div pageSize \in DOMAIN bs}

\* the content of the slot of row index r, a row of bs
SlotAt(bs, r) == bs[r \div pageSize].rows[Slot(r \div pageSize, r)]

\* the first row index at which the blocks bs hold row node n
RowIndexOf(bs, n) == SetMin({r \in RowsOf(bs) : SlotAt(bs, r) = n})

\* the cache as an operation finds it
Cache ==
    [blocks |-> blocks, rowNodes |-> rowNodes,
     lastAccessedSequence |-> lastAccessedSequence, evicted |-> evicted,
     virtualRowCount |-> virtualRowCount, maxRowFound |-> maxRowFound,
     events |-> <<>>, used |-> NodesIn(blocks), made |-> <<>>]

EmptyCache ==
    [blocks |-> <<>>, rowNodes |-> <<>>, lastAccessedSequence |-> 0,
     evicted |-> [k \in BlockNumbers |-> 0], virtualRowCount |-> 0,
     maxRowFound |-> FALSE, events |-> <<>>, used |-> {}, made |-> <<>>]

\* Object identities and access stamps are kept canonical: when an operation
\* ends, each row node is renamed to 1 + the first row index at which the cache
\* holds it, and the lastAccessed stamps of the resident blocks are renumbered
\* 1, 2, ... in their order.  Identities are only compared for equality and
\* stamps only with <, so the cache behaves the same.  call.origin keeps, for
\* each row node, the name it had before the operation (New for a row node the
\* operation made).
New == 0

Renaming(c) == [n \in NodesIn(c.blocks) |-> RowIndexOf(c.blocks, n) + 1]

Rename(ren, n) == IF n \in DOMAIN ren THEN ren[n] ELSE n

StampRank(bs, k) ==
    Cardinality({j \in DOMAIN bs : bs[j].lastAccessed < bs[k].lastAccessed}) + 1

\* the operation name(rowIndex, items) is the one that runs
Called(name, rowIndex, items) ==
    operation' = [name |-> name, rowIndex |-> rowIndex, items |-> items]

\* the cache c that an operation started on c0 leaves, and the record of the call
Commit(c0, c, result) ==
    \E ren \in {Renaming(c)} :
    \E inv \in {[m \in {ren[n] : n \in DOMAIN ren} |-> CHOOSE n \in DOMAIN ren : ren[n] = m]} :
       /\ blocks' = [k \in DOMAIN c.blocks |->
                       [c.blocks[k] EXCEPT
                          !.rows = [i \in 1 .. pageSize |-> Rename(ren, @[i])],
                          !.lastAccessed = StampRank(c.blocks, k)]]
       /\ rowNodes' = [m \in DOMAIN inv |-> c.rowNodes[inv[m]]]
       /\ lastAccessedSequence' = Cardinality(DOMAIN c.blocks)
       /\ evicted' = c.evicted
       /\ virtualRowCount' = c.virtualRowCount
       /\ maxRowFound' = c.maxRowFound
       /\ events' = [e \in DOMAIN c.events |->
                       [c.events[e] EXCEPT
                          !.nodes = [i \in DOMAIN @ |-> Rename(ren, @[i])]]]
       /\ call' = [result |-> Rename(ren, result),
                   made |-> [m \in {ren[n] : n \in (DOMAIN c.made) \cap DOMAIN ren} |->
                               c.made[inv[m]]],
                   origin |-> [m \in DOMAIN inv |->
                                 IF inv[m] \in c0.used THEN inv[m] ELSE New],
                   touched |-> {k \in DOMAIN c.blocks :
                                  c.blocks[k].lastAccessed > c0.lastAccessedSequence},
                   before |-> [rows |-> [k \in DOMAIN c0.blocks |-> c0.blocks[k].rows],
                               virtualRowCount |-> c0.virtualRowCount,
                               maxRowFound |-> c0.maxRowFound]]
       /\ UNCHANGED <<cacheParams, active>>

EvictedLoading(c) ==
    LET RECURSIVE Sum(_)
        Sum(S) == IF S = {} THEN 0
                  ELSE LET k == SetMin(S) IN c.evicted[k] + Sum(S \ {k})
    IN Sum(DOMAIN c.evicted)

\* the constructor, then init(): getRow(0) starts the first load
InitWith(params) ==
    /\ cacheParams \in params
    /\ active = TRUE
    /\ LET c == getRow(EmptyCache, 0, FALSE).cache
       IN /\ blocks = c.blocks
          /\ rowNodes = c.rowNodes
          /\ lastAccessedSequence = c.lastAccessedSequence
          /\ evicted = c.evicted
          /\ virtualRowCount = c.virtualRowCount
          /\ maxRowFound = c.maxRowFound
          /\ events = c.events
    /\ operation = [name |-> "init", rowIndex |-> 0, items |-> <<>>]
    /\ call = [result |-> Blank,
               made |-> <<>>, origin |-> <<>>, touched |-> {0},
               before |-> [rows |-> <<>>, virtualRowCount |-> 0, maxRowFound |-> FALSE]]
    /\ getRowLog = <<0>>

Init == InitWith(CacheParams)

ItemLists == {SubSeq(ItemPool, 1, n) : n \in 1 .. MaxItems}

\* getRowLog follows the getRow calls while no other operation has been called
LogBroken == <<Null>>

CallGetRow(rowIndex) ==
    /\ Called("getRow", rowIndex, <<>>)
    /\ \E got \in {getRow(Cache, rowIndex, FALSE)} :
          /\ EvictedLoading(got.cache) <= MaxEvictedLoading
          /\ Commit(Cache, got.cache, got.node)
    /\ getRowLog' = IF getRowLog # LogBroken /\ Len(getRowLog) < MaxLog
                    THEN Append(getRowLog, rowIndex \div pageSize)
                    ELSE LogBroken

CallInsertItemsAtIndex(indexToInsert, items) ==
    /\ Called("insertItemsAtIndex", indexToInsert, items)
    /\ \E c \in {insertItemsAtIndex(Cache, indexToInsert, items)} :
          /\ c.virtualRowCount <= MaxRowCount
          /\ Commit(Cache, c, Blank)
    /\ getRowLog' = LogBroken

CallRefreshCache ==
    /\ Called("refreshCache", 0, <<>>)
    /\ \E c \in {refreshCache(Cache)} : Commit(Cache, c, Blank)
    /\ getRowLog' = LogBroken

CallPurgeCache ==
    /\ Called("purgeCache", 0, <<>>)
    /\ \E c \in {purgeCache(Cache)} :
          /\ EvictedLoading(c) <= MaxEvictedLoading
          /\ Commit(Cache, c, Blank)
    /\ getRowLog' = LogBroken

LoadSuccess(blockNumber) ==
    /\ blockNumber \in DOMAIN blocks
    /\ blocks[blockNumber].state = "Loading"
    /\ Called("loadSuccess", blockNumber, <<>>)
    /\ \E c \in {pageLoaded(Cache, blockNumber)} : Commit(Cache, c, Blank)
    /\ UNCHANGED getRowLog

LoadFailure(blockNumber) ==
    /\ blockNumber \in DOMAIN blocks
    /\ blocks[blockNumber].state = "Loading"
    /\ Called("loadFailure", blockNumber, <<>>)
    /\ \E c \in {pageLoadFailed(Cache, blockNumber)} : Commit(Cache, c, Blank)
    /\ UNCHANGED getRowLog

EvictedLoadComplete(blockNumber) ==
    /\ blockNumber \in DOMAIN evicted
    /\ evicted[blockNumber] > 0
    /\ Called("evictedLoadComplete", blockNumber, <<>>)
    /\ \E c \in {evictedPageLoaded(Cache, blockNumber)} : Commit(Cache, c, Blank)
    /\ UNCHANGED getRowLog

\* the owner of the cache switches its active flag
SetActive ==
    /\ active' = ~active
    /\ events' = <<>>
    /\ Called("setActive", 0, <<>>)
    /\ call' = [call EXCEPT !.result = Blank, !.made = <<>>, !.touched = {},
                            !.origin = [n \in DOMAIN rowNodes |-> n],
                            !.before = [rows |-> [k \in DOMAIN blocks |-> blocks[k].rows],
                                        virtualRowCount |-> virtualRowCount,
                                        maxRowFound |-> maxRowFound]]
    /\ getRowLog' = LogBroken
    /\ UNCHANGED <<cacheParams, blocks, rowNodes, lastAccessedSequence, evicted,
                   virtualRowCount, maxRowFound>>

Next ==
    \/ \E rowIndex \in RowIndexes : CallGetRow(rowIndex)
    \/ \E indexToInsert \in RowIndexes, items \in ItemLists :
           CallInsertItemsAtIndex(indexToInsert, items)
    \/ CallRefreshCache
    \/ CallPurgeCache
    \/ \E blockNumber \in BlockNumbers : LoadSuccess(blockNumber)
    \/ \E blockNumber \in BlockNumbers : LoadFailure(blockNumber)
    \/ \E blockNumber \in BlockNumbers : EvictedLoadComplete(blockNumber)
    \/ SetActive

Spec == Init /\ [][Next]_vars

\* the datasource answers every request: each load in flight completes
Answered ==
    /\ \A blockNumber \in 0 .. MaxRowIndex :
          WF_vars(LoadSuccess(blockNumber) \/ LoadFailure(blockNumber))
    /\ \A blockNumber \in 0 .. MaxRowIndex : WF_vars(EvictedLoadComplete(blockNumber))

FairSpec == Spec /\ Answered

\* the LRU scenario: getRow calls and load completions on a cache of one-row blocks
NextLRU ==
    \/ \E rowIndex \in RowIndexes : CallGetRow(rowIndex)
    \/ \E blockNumber \in BlockNumbers : LoadSuccess(blockNumber)
    \/ \E blockNumber \in BlockNumbers : LoadFailure(blockNumber)
    \/ \E blockNumber \in BlockNumbers : EvictedLoadComplete(blockNumber)

SpecLRU == InitWith(CacheParamsLRU) /\ [][NextLRU]_vars

\* eviction on caches of one-row blocks with capacity 0 and 2: getRow calls,
\* purgeCache and load completions
CacheParamsEviction == {[pageSize |-> 1, maxBlocksInCache |-> m] : m \in {0, 2}}

NextEviction ==
    \/ NextLRU
    \/ CallPurgeCache

SpecEviction == InitWith(CacheParamsEviction) /\ [][NextEviction]_vars

\* ------------------------------------------------------------- the claims

Inserted == operation.name = "insertItemsAtIndex"
InsertIndex == operation.rowIndex
InsertCount == Len(operation.items)

Resident(r) == r \div pageSize \in DOMAIN blocks
NodeAt(r) == SlotAt(blocks, r)
HeldAt(r) == Resident(r) /\ NodeAt(r) # Blank

ResidentBefore(r) == r \div pageSize \in DOMAIN call.before.rows
NodeBefore(r) == call.before.rows[r \div pageSize][Slot(r \div pageSize, r)]
HeldBefore(r) == ResidentBefore(r) /\ NodeBefore(r) # Blank

\* the blocks the last call removed from the cache
EvictedByCall == (DOMAIN call.before.rows) \ (DOMAIN blocks)

\* slot r holds the row node that slot q held before the call
MovedFrom(q, r) == HeldAt(r) /\ HeldBefore(q) /\ call.origin[NodeAt(r)] = NodeBefore(q)

\* slot r holds a row node made by the last call
HoldsNew(r) == HeldAt(r) /\ call.origin[NodeAt(r)] = New

AllRows == 0 .. (MaxRowIndex + MaxItems + 2)

\* C1 as stated: when maxBlocksInCache is set to N, at most N blocks are
\* resident after every cache operation.
C1_AtMostN ==
    exists(maxBlocksInCache) => getBlockCount(Cache) <= maxBlocksInCache

\* C1, amended: when maxBlocksInCache is set to N, at most max(N, 1) blocks are
\* resident after every cache operation (the block just created is never
\* evicted, so one block stays when N is 0).
C1_AtMostNOrOne ==
    exists(maxBlocksInCache) =>
        getBlockCount(Cache) <= (IF maxBlocksInCache < 1 THEN 1 ELSE maxBlocksInCache)

\* a getRow created block N + 1 and the creation evicted a block
C1_Witness ==
    /\ maxBlocksInCache = 1
    /\ operation.name = "getRow"
    /\ EvictedByCall # {}
    /\ getBlockCount(Cache) = 1

\* getRow has just returned, and the getRow calls since construction were on
\* the blocks of log, in that order
JustRead(log) == operation.name = "getRow" /\ getRowLog = log

\* the getRow calls since construction were on the blocks A, B, C, A, D
LRUScenario(A, B, C, D) ==
    /\ maxBlocksInCache = 2
    /\ Cardinality({A, B, C, D}) = 4
    /\ JustRead(<<A, B, C, A, D>>)

\* C2 as stated: capacity 2, blocks A, B, C created in that order, A read
\* again: the creation of a fourth block D evicts B and does not evict A.
C2_FourthCreationEvictsB ==
    \A A, B, C, D \in BlockNumbers :
        LRUScenario(A, B, C, D) => EvictedByCall = {B} /\ A \in DOMAIN blocks

\* C2, amended: capacity 2, blocks A, B, C created in that order: the creation
\* of C has evicted A, the getRow on A that follows creates A again and that
\* creation evicts B, the least recently touched of B and C; the creation of a
\* further block D then evicts C and does not evict A.
C2_LeastRecentlyTouchedEvicted ==
    \A A, B, C \in BlockNumbers :
        /\ (maxBlocksInCache = 2 /\ Cardinality({A, B, C}) = 3
            /\ JustRead(<<A, B, C>>))
               => EvictedByCall = {A}
        /\ (maxBlocksInCache = 2 /\ Cardinality({A, B, C}) = 3
            /\ JustRead(<<A, B, C, A>>))
               => EvictedByCall = {B} /\ DOMAIN blocks = {A, C}
        /\ \A D \in BlockNumbers :
               LRUScenario(A, B, C, D) => EvictedByCall = {C} /\ DOMAIN blocks = {A, D}

C2_Witness == \E A, B, C, D \in BlockNumbers : LRUScenario(A, B, C, D)

\* C3: after insertItemsAtIndex(index, items), n = Len(items): a resident slot
\* r >= index + n whose source r - n held a row node in a resident block before
\* the call holds exactly that row node, and a resident slot r with
\* index <= r < index + n holds a fresh row node carrying items[r - index].
C3_ShiftedAndSpliced ==
    Inserted =>
        \A r \in AllRows :
            /\ (Resident(r) /\ r >= InsertIndex + InsertCount
                /\ HeldBefore(r - InsertCount))
                   => MovedFrom(r - InsertCount, r)
            /\ (Resident(r) /\ InsertIndex <= r /\ r < InsertIndex + InsertCount)
                   => /\ HoldsNew(r)
                      /\ call.made[NodeAt(r)] = operation.items[r - InsertIndex + 1]

\* an insert moved a row node into another block and put two items in two blocks
C3_Witness ==
    /\ Inserted
    /\ InsertCount = 2
    /\ \E r \in AllRows :
          /\ r >= InsertIndex + InsertCount
          /\ MovedFrom(r - InsertCount, r)
          /\ r \div pageSize # (r - InsertCount) \div pageSize
    /\ \E r \in AllRows : HoldsNew(r) /\ HoldsNew(r + 1)
                          /\ r \div pageSize # (r + 1) \div pageSize

\* C4 as stated: every row node held at a position p >= index in a resident
\* block before insertItemsAtIndex(index, items) is held at position
\* p + Len(items) in a resident block after the call.
C4_NoIdentityLost ==
    Inserted =>
        \A p \in AllRows :
            (p >= InsertIndex /\ HeldBefore(p)) => MovedFrom(p, p + InsertCount)

\* C4, amended: such a row node is held at position p + Len(items) after the
\* call when the block of that position is resident; when it is not, the row
\* node is in no slot of the cache any more.
C4_MovedOrDropped ==
    Inserted =>
        \A p \in AllRows :
            (p >= InsertIndex /\ HeldBefore(p)) =>
                IF Resident(p + InsertCount)
                THEN MovedFrom(p, p + InsertCount)
                ELSE \A r \in AllRows : ~MovedFrom(p, r)

\* an insert moved one row node to its new position and dropped another
C4_Witness ==
    /\ Inserted
    /\ \E p \in AllRows : p >= InsertIndex /\ MovedFrom(p, p + InsertCount)
    /\ \E p \in AllRows : p >= InsertIndex /\ HeldBefore(p)
                          /\ ~Resident(p + InsertCount)

\* C5: after insertItemsAtIndex no row node occupies more than one slot, and
\* no slot at or after index still holds the row node it held before the call.
C5_NoIdentityDuplicated ==
    Inserted =>
        /\ \A r1, r2 \in AllRows :
              (HeldAt(r1) /\ HeldAt(r2) /\ NodeAt(r1) = NodeAt(r2)) => r1 = r2
        /\ \A r \in AllRows : r >= InsertIndex => ~MovedFrom(r, r)

\* an insert moved a row node out of a slot of a block that stays resident
C5_Witness ==
    /\ Inserted
    /\ \E r \in AllRows : /\ r >= InsertIndex + InsertCount
                          /\ MovedFrom(r - InsertCount, r)
                          /\ Resident(r - InsertCount)
                          /\ r - InsertCount >= InsertIndex + InsertCount

\* C6: at the end of every cache operation every slot of every resident block
\* is blank or holds a row node whose recorded row index is the slot's.
C6_RowIndexMatchesSlot ==
    \A r \in AllRows : HeldAt(r) => rowNodes[NodeAt(r)].rowIndex = r

\* an insert moved a row node across a block boundary
C6_Witness ==
    /\ Inserted
    /\ \E r \in AllRows : /\ r >= InsertIndex + InsertCount
                          /\ MovedFrom(r - InsertCount, r)
                          /\ r \div pageSize # (r - InsertCount) \div pageSize
                          /\ rowNodes[NodeAt(r)].rowIndex = r

\* the block that holds row index r
BlockAt(r) == blocks[r \div pageSize]

\* the last call was an insert whose shift wrote a blank into the resident slot
\* r because the block of its source r - n was not resident
BlankFilled(r) ==
    /\ Inserted
    /\ Resident(r)
    /\ r >= InsertIndex + InsertCount
    /\ ~ResidentBefore(r - InsertCount)

\* the load of the block of r has just succeeded: the slot holds a row node
\* made from a fetched item and the block is clean
Reloaded(r) ==
    /\ operation.name = "loadSuccess"
    /\ operation.rowIndex = r \div pageSize
    /\ HeldAt(r)
    /\ NodeAt(r) \in DOMAIN call.made
    /\ call.made[NodeAt(r)] = FetchedItem
    /\ ~BlockAt(r).dirty

C8_RowCountGrowsWhenEndKnown ==
    Inserted =>
        /\ maxRowFound = call.before.maxRowFound
        /\ virtualRowCount = call.before.virtualRowCount
                             + (IF call.before.maxRowFound THEN InsertCount ELSE 0)

C8_Witness ==
    /\ Inserted
    /\ call.before.maxRowFound
    /\ virtualRowCount = call.before.virtualRowCount + 2

\* the row indexes at which the last insert put its items in resident blocks
InsertTargets == {r \in InsertIndex .. (InsertIndex + InsertCount - 1) : Resident(r)}

\* C9: insertItemsAtIndex emits exactly one items-added notification, as its
\* last notification and after its model-updated notification (emitted when
\* the cache is active); the payload holds exactly the row nodes the call made,
\* one per item whose target index is in a resident block, each once.
C9_OneItemsAddedAfterModelUpdated ==
    Inserted =>
        /\ Len(events) = (IF active THEN 2 ELSE 1)
        /\ active => events[1].type = "modelUpdated"
        /\ LET added == events[Len(events)]
           IN /\ added.type = "itemsAdded"
              /\ Len(added.nodes) = Cardinality(InsertTargets)
              /\ {added.nodes[i] : i \in DOMAIN added.nodes}
                     = {NodeAt(r) : r \in InsertTargets}
              /\ \A i \in DOMAIN added.nodes :
                     added.nodes[i] # Blank /\ call.origin[added.nodes[i]] = New

\* an active cache's insert made two row nodes and moved another
C9_Witness ==
    /\ Inserted
    /\ active
    /\ Len(events[Len(events)].nodes) = 2
    /\ \E r \in AllRows : r >= InsertIndex + InsertCount /\ MovedFrom(r - InsertCount, r)

\* C10: the payload of the items-added notification lists the new row nodes
\* in the order of items, that is by ascending row index.
C10_PayloadInItemOrder ==
    Inserted =>
        LET added == events[Len(events)].nodes
        IN \A i, j \in DOMAIN added :
               i < j => rowNodes[added[i]].rowIndex < rowNodes[added[j]].rowIndex

\* the number of model-updated notifications the last operation emitted
ModelUpdatedCount ==
    Cardinality({i \in DOMAIN events : events[i].type = "modelUpdated"})

\* C11: no operation emits a model-updated notification while the cache is
\* not active; while it is active insertItemsAtIndex and purgeCache emit
\* exactly one each.
C11_ModelUpdatedOnlyWhenActive ==
    /\ ~active => ModelUpdatedCount = 0
    /\ (active /\ operation.name \in {"insertItemsAtIndex", "purgeCache"})
          => ModelUpdatedCount = 1

\* an inactive cache purged its blocks and emitted nothing
C11_Witness ==
    /\ operation.name = "purgeCache"
    /\ ~active
    /\ EvictedByCall # {}
    /\ events = <<>>

\* C12 as stated: after purgeCache no block is resident and the call has
\* emitted exactly one model-updated notification.
C12_PurgeEmitsOneModelUpdated ==
    operation.name = "purgeCache" =>
        /\ DOMAIN blocks = {}
        /\ ModelUpdatedCount = 1

\* C12, amended: after purgeCache no block is resident and the row count is
\* the one before the call, so that a second purgeCache right after leaves the
\* same state; each call emits exactly one model-updated notification when the
\* cache is active and none when it is not; a getRow on the purged cache
\* creates the block it lands in.
C12_PurgeIdempotent ==
    /\ operation.name = "purgeCache" =>
          /\ DOMAIN blocks = {}
          /\ DOMAIN rowNodes = {}
          /\ virtualRowCount = call.before.virtualRowCount
          /\ maxRowFound = call.before.maxRowFound
          /\ ModelUpdatedCount = (IF active THEN 1 ELSE 0)
          /\ Len(events) = ModelUpdatedCount
    /\ (operation.name = "getRow" /\ DOMAIN call.before.rows = {})
          => DOMAIN blocks = {operation.rowIndex \div pageSize}

\* an active cache was purged when it held no block: the second of two purges
C12_Witness ==
    /\ operation.name = "purgeCache"
    /\ active
    /\ DOMAIN call.before.rows = {}
    /\ DOMAIN blocks = {}
    /\ ModelUpdatedCount = 1

\* block b leaves the block map in this step while its load is in flight
EvictedWhileLoading(b) ==
    /\ b \in DOMAIN blocks
    /\ b \notin DOMAIN blocks'
    /\ blocks[b].state = "Loading"

\* this step is the completion of the load of an evicted block numbered b
EvictedLoadCompletes(b) ==
    operation'.name = "evictedLoadComplete" /\ operation'.rowIndex = b

\* C13: a block evicted by LRU eviction or by purgeCache while Loading keeps
\* its load-completion listener: every step that removes such a block adds one
\* pending completion for it, nothing but the completion of its load takes a
\* pending completion away, and that completion invokes the listener exactly
\* once (one load-complete notification for the block).
C13_EvictedLoadingAnsweredOnce ==
    [][\A b \in DOMAIN evicted :
          /\ evicted'[b] = evicted[b]
                           + (IF EvictedWhileLoading(b) THEN 1 ELSE 0)
                           - (IF EvictedLoadCompletes(b) THEN 1 ELSE 0)
          /\ EvictedLoadCompletes(b) =>
                /\ evicted[b] > 0
                /\ events' = <<Event("loadComplete", <<>>, b)>>]_vars

\* the load of an evicted block has completed and its listener has been told,
\* while a newer block of the same number is resident
C13_Witness ==
    /\ operation.name = "evictedLoadComplete"
    /\ operation.rowIndex \in DOMAIN blocks
    /\ events = <<Event("loadComplete", <<>>, operation.rowIndex)>>
    /\ evicted[operation.rowIndex] = 0

\* C14: getRow(index) with block creation disallowed, when no block is resident
\* for index \div pageSize, returns null and leaves the cache as it is: no
\* block created or evicted, no load started, no lastAccessed stamp changed.
\* Checked for every such index in every reachable state of the cache.
C14_NoCreateLeavesCacheUnchanged ==
    \A rowIndex \in AllRows :
        rowIndex \div pageSize \notin DOMAIN blocks =>
            getRow(Cache, rowIndex, TRUE) = [cache |-> Cache, node |-> Null]

\* an insert has read, with creation disallowed, a source row whose block is
\* not resident, and the block is still not resident
C14_Witness ==
    \E r \in AllRows :
        /\ BlankFilled(r)
        /\ ~Resident(r - InsertCount)
        /\ getBlockCount(Cache) = Cardinality(DOMAIN call.before.rows)

Refreshed == operation.name = "refreshCache"

CreatesOverCapacity ==
    /\ operation'.name = "getRow"
    /\ operation'.rowIndex \div pageSize \notin DOMAIN blocks
    /\ exists(maxBlocksInCache)
    /\ getBlockCount(Cache) + 1 > maxBlocksInCache

\* the blocks that leave the block map in this step
EvictedInStep == (DOMAIN blocks) \ (DOMAIN blocks')

\* C16 as stated: a creation that pushes the count above maxBlocksInCache
\* evicts exactly one block, the one with the smallest lastAccessed among the
\* others; any other getRow evicts none.
C16_ExactlyOneEvicted ==
    [][operation'.name = "getRow" =>
          IF CreatesOverCapacity
          THEN \E k \in DOMAIN blocks :
                  /\ EvictedInStep = {k}
                  /\ \A j \in DOMAIN blocks : blocks[k].lastAccessed <= blocks[j].lastAccessed
          ELSE EvictedInStep = {}]_vars

\* C16, amended: a creation that pushes the count above maxBlocksInCache
\* evicts exactly one block when a block other than the new one is resident:
\* the block with the smallest lastAccessed among them (the stamps of resident
\* blocks are distinct, no tie arises); it evicts none when the new block is
\* the only block, which happens with maxBlocksInCache = 0 on an empty cache;
\* any other getRow evicts none.
C16_OneOtherEvicted ==
    [][operation'.name = "getRow" =>
          IF CreatesOverCapacity /\ DOMAIN blocks # {}
          THEN \E k \in DOMAIN blocks :
                  /\ EvictedInStep = {k}
                  /\ \A j \in (DOMAIN blocks) \ {k} :
                        blocks[k].lastAccessed < blocks[j].lastAccessed
          ELSE EvictedInStep = {}]_vars

\* a creation has evicted the least recently used of two blocks, and it was
\* not the first of the scan
C16_Witness ==
    /\ operation.name = "getRow"
    /\ maxBlocksInCache = 2
    /\ getBlockCount(Cache) = 2
    /\ \E k \in EvictedByCall : \E j \in DOMAIN blocks :
          j < k /\ j # operation.rowIndex \div pageSize

\* the last insert found no row node at the source of the resident slot r
MissingSource(r) ==
    /\ Inserted
    /\ Resident(r)
    /\ r >= InsertIndex + InsertCount
    /\ ~HeldBefore(r - InsertCount)

\* C17: in insertItemsAtIndex a destination slot whose source holds no row
\* node (its block not resident, or the slot blank) is set blank and its block
\* is marked dirty; the call goes on: in the same call every other destination
\* slot takes its source row node, every insertion slot takes its new row
\* node, and the call ends with its items-added notification.
C17_MissingSourceBlankAndDirty ==
    (\E r \in AllRows : MissingSource(r)) =>
        /\ \A r \in AllRows :
              /\ MissingSource(r) => NodeAt(r) = Blank /\ BlockAt(r).dirty
              /\ (Resident(r) /\ r >= InsertIndex + InsertCount
                  /\ HeldBefore(r - InsertCount))
                     => MovedFrom(r - InsertCount, r)
              /\ (Resident(r) /\ InsertIndex <= r /\ r < InsertIndex + InsertCount)
                     => HoldsNew(r)
        /\ events[Len(events)].type = "itemsAdded"

\* an insert found a source missing in the highest block and went on: it moved
\* a row node and made a new one in a lower block
C17_Witness ==
    \E r \in AllRows :
        /\ MissingSource(r)
        /\ NodeAt(r) = Blank
        /\ \E q \in AllRows : q < r /\ q \div pageSize < r \div pageSize
                              /\ MovedFrom(q - InsertCount, q)
        /\ \E q \in AllRows : q < r /\ q \div pageSize < r \div pageSize /\ HoldsNew(q)

\* C18: insertItemsAtIndex(index, items) creates no block and evicts none,
\* leaves every block whose rows end at or before index as it is (slots, dirty
\* flag, load state, lastAccessed) and leaves every slot before index as it
\* is.  Checked on the cache the call returns, for every index and every list
\* of items in every reachable state, and on the blocks the last insert left.
C18_InsertLeavesRestUnchanged ==
    /\ \A indexToInsert \in RowIndexes, items \in ItemLists :
          \A c \in {insertItemsAtIndex(Cache, indexToInsert, items)} :
              /\ DOMAIN c.blocks = DOMAIN blocks
              /\ \A k \in DOMAIN blocks :
                    getEndRow(k) <= indexToInsert => c.blocks[k] = blocks[k]
              /\ \A r \in AllRows :
                    (Resident(r) /\ r < indexToInsert) => SlotAt(c.blocks, r) = NodeAt(r)
    /\ Inserted =>
          /\ DOMAIN blocks = DOMAIN call.before.rows
          /\ \A r \in AllRows :
                (Resident(r) /\ r < InsertIndex) =>
                    \/ NodeAt(r) = Blank /\ NodeBefore(r) = Blank
                    \/ MovedFrom(r, r)

\* an insert in the second block of two: the first block ends at or before
\* the index, and a slot before the index in the second block kept its row node
C18_Witness ==
    /\ Inserted
    /\ \E k \in DOMAIN blocks : getEndRow(k) <= InsertIndex /\ MovedFrom(getStartRow(k), getStartRow(k))
    /\ \E r \in AllRows : /\ r < InsertIndex
                          /\ r \div pageSize = InsertIndex \div pageSize
                          /\ MovedFrom(r, r)
    /\ HoldsNew(InsertIndex)

\* C19: the completion of the load of a block evicted before its fetch
\* resolved leaves the block map as it is: the same blocks are resident, the
\* evicted block is not among them again, and every resident block, a newer
\* block of the same number included, keeps its load state, dirty flag,
\* lastAccessed and row slots; the row count is unchanged too.
C19_EvictedCompletionLeavesBlocks ==
    [][\A b \in DOMAIN evicted :
          EvictedLoadCompletes(b) =>
              /\ blocks' = blocks
              /\ rowNodes' = rowNodes
              /\ virtualRowCount' = virtualRowCount
              /\ maxRowFound' = maxRowFound]_vars

\* the load of an evicted block has completed while a newer block of the same
\* number is resident with its own load still in flight
C19_Witness ==
    /\ operation.name = "evictedLoadComplete"
    /\ operation.rowIndex \in DOMAIN blocks
    /\ blocks[operation.rowIndex].state = "Loading"
    /\ \A i \in 1 .. pageSize : blocks[operation.rowIndex].rows[i] = Blank

\* C20: right after getRow(i) with creation allowed the block numbered
\* i \div pageSize is resident, whatever maxBlocksInCache is, and it is the
\* block that served the row: it has been accessed by the call and the row
\* returned is the content of its slot.
C20_CreatedBlockStaysResident ==
    operation.name = "getRow" =>
        /\ Resident(operation.rowIndex)
        /\ operation.rowIndex \div pageSize \in call.touched
        /\ call.result = NodeAt(operation.rowIndex)

\* a getRow created a block on a cache of capacity 0 and the creation evicted
\* the other block
C20_Witness ==
    /\ operation.name = "getRow"
    /\ maxBlocksInCache = 0
    /\ EvictedByCall # {}
    /\ DOMAIN blocks = {operation.rowIndex \div pageSize}

====
